---- MODULE Spec2Model ----
(***************************************************************************)
(* A model of ui/packages/app/src/components/StatusTracker/                *)
(* StatusTracker.svelte:                                                   *)
(*   - the module-level scroll coordinator (items, called,                 *)
(*     scroll_into_view and its deferred flush), shared by every widget    *)
(*     instance of the page;                                               *)
(*   - one widget instance's timer, ETA and progress state.                *)
(* JavaScript runs one task at a time: every action below is one           *)
(* synchronous piece of code (a call, a reactive update, a callback).      *)
(***************************************************************************)
EXTENDS Integers, Sequences, FiniteSets, TLC

----------------------------------------------------------------------------
(* Bounds of the model *)

\* number of widget elements on the page
NumEls == 2
\* longest pending list explored
MaxItems == 3
\* largest document position of an element
MaxY == 1
\* largest page scroll offset
MaxScroll == 1

\* latest instant of the page clock, in seconds
MaxNow == 4
\* largest eta explored, in seconds
MaxEta == 14
\* most tick callbacks outstanding at once
MaxTicks == 2
NumImages == 2
NumMasks == 1

\* the gap left above the winning element (window.scrollTo top: min[0] - 20)
ScrollMargin == 20

Els == 1 .. NumEls
\* window.__gradio_mode__: "embed" stands for every value other than the two
\* the code names (undefined included)
Modes == {"website", "app", "embed"}
\* the second argument of scroll_into_view: boolean | null, or left out
EnableArgs == {"true", "false", "null", "undefined"}

----------------------------------------------------------------------------
(* State *)

VARIABLES
    \* -- the scroll coordinator (module script)
    gradio_mode,    \* window.__gradio_mode__
    items,          \* the pending list: a sequence of elements
    called,         \* the flush-scheduled flag
    awaiting,       \* calls suspended at `await tick()`
    rafs,           \* flush callbacks handed to requestAnimationFrame, not yet run
    inPass,         \* a synchronous update pass of the framework is running
    pageY,          \* the layout: each element's document position
    scrollY,        \* window.scrollY
    \* -- observation of the scroll coordinator (history, not program state)
    g_call,         \* the call just made, if the last step was a call
    g_flush,        \* the flush just run, if the last step was a flush
    passItems,      \* the elements accepted during the most recent pass
    nflush,         \* flushes run since the most recent pass began
    regMin,         \* the least position any pending element had when registered
    \* -- one widget instance (instance script)
    status,         \* the status prop
    eta,            \* the eta prop, rewritten by the ETA block (seconds)
    queue,          \* the queue prop
    _timer,         \* the running flag
    timer_start,    \* the start timestamp (milliseconds)
    timer_diff,     \* elapsed seconds
    old_eta,        \* the last-known eta
    formatted_eta,  \* eta.toFixed(1)
    ticks,          \* tick callbacks handed to requestAnimationFrame, not yet run
    destroyed,      \* the widget has been torn down
    now,            \* the page clock, in seconds
    \* -- observation of the widget
    t_last,         \* the step just taken
    observed,       \* a non-null eta has been supplied
    \* -- the widget embedding the editor frame (editor-bridge script)
    value,          \* the value prop: an image and a mask
    imageEditor,    \* the editor frame is bound (and the message listener on)
    imageEditorValue, \* the image last received from the editor
    posted,         \* messages the step just taken posted to the frame
    dispatched,     \* change notifications the step just taken raised
    \* -- observation of the editor bridge
    sent,           \* the message most recently posted to the frame
    e_last          \* the step just taken

scrollVars == <<gradio_mode, items, called, awaiting, rafs, inPass, pageY, scrollY>>
scrollObs == <<g_call, g_flush, passItems, nflush, regMin>>
timerVars == <<status, eta, queue, _timer, timer_start, timer_diff, old_eta,
               formatted_eta, ticks, destroyed, now>>
timerObs == <<t_last, observed>>
editorVars == <<value, imageEditor, imageEditorValue, posted, dispatched>>
editorObs == <<sent, e_last>>
vars == <<scrollVars, scrollObs, timerVars, timerObs, editorVars, editorObs>>

NoCall == [op |-> "none", el |-> 0, enable |-> "none"]
\* a nullable value: Null, or Some(v)
Null == <<>>
Some(v) == <<v>>

NoFlush == [op |-> "none", examined |-> <<>>, top |-> 0, idx |-> 0, regMin |-> Null]

----------------------------------------------------------------------------
(* The scroll coordinator: src lines 1-44 *)

\* line 10: `enable: boolean | null = true`, the default replaces a missing argument
DefaultEnable(arg) == IF arg = "undefined" THEN "true" ELSE arg

Rejected_nullEnables(mode, enable) ==
    mode = "website" \/ (mode # "app" /\ enable = "false")

\* lines 12-15: the guard of the early return
Rejected(mode, enable) ==
    mode = "website" \/ (mode # "app" /\ enable # "true")

SchedulesFlush_always == TRUE

\* lines 20-21: `if (!called) called = true; else return;`
\* TRUE when this call goes on to `await tick()`
SchedulesFlush == ~called

\* line 31: element.getBoundingClientRect().top, relative to the viewport
BoxTop(el) == pageY[el] - scrollY

Replaces_strict(i, y, min) == i = 0 \/ y < min[1]

Replaces_noFirst(i, y, min) == y <= min[1]

\* line 32: `i === 0 || box.top + window.scrollY <= min[0]`
\* (i is the 0-based index of the code; min is <<min[0], min[1]>>)
Replaces(i, y, min) == i = 0 \/ y <= min[1]

RECURSIVE FlushLoop(_, _, _)
\* lines 28-36: the loop from 0-based index i on, `min` being what the earlier
\* iterations left
FlushLoop(i, min, its) ==
    IF i >= Len(its) THEN min
    ELSE LET y == BoxTop(its[i + 1]) + scrollY
         IN  IF Replaces(i, y, min)
             THEN FlushLoop(i + 1, <<y, i>>, its)
             ELSE FlushLoop(i + 1, min, its)

\* lines 26-36: `let min = [0, 0]` and the loop over items
FlushMin(its) == FlushLoop(0, <<0, 0>>, its)

\* The framework starts a synchronous update pass (component creation or a
\* flush of dirty components); the reactive statements of lines 107-110 run
\* inside it.
BeginPass ==
    /\ ~inPass
    /\ inPass' = TRUE
    /\ UNCHANGED <<gradio_mode, items, called, awaiting, rafs, pageY, scrollY>>

EndPass ==
    /\ inPass
    /\ inPass' = FALSE
    /\ UNCHANGED <<gradio_mode, items, called, awaiting, rafs, pageY, scrollY>>

\* lines 8-23: scroll_into_view(el, arg) up to its `await tick()`
scroll_into_view(el, arg) ==
    /\ inPass
    /\ IF Rejected(gradio_mode, DefaultEnable(arg))
       THEN UNCHANGED <<items, called, awaiting>>
       ELSE /\ Len(items) < MaxItems
            /\ items' = Append(items, el)
            /\ called' = TRUE
            /\ awaiting' = IF SchedulesFlush THEN awaiting + 1 ELSE awaiting
    /\ UNCHANGED <<gradio_mode, rafs, inPass, pageY, scrollY>>

\* lines 23-25: the awaited tick() resolves once the synchronous pass is over;
\* the continuation hands the flush to requestAnimationFrame
TickResolved ==
    /\ ~inPass
    /\ awaiting > 0
    /\ awaiting' = awaiting - 1
    /\ rafs' = rafs + 1
    /\ UNCHANGED <<gradio_mode, items, called, inPass, pageY, scrollY>>

\* lines 25-42: the animation-frame callback. window.scrollTo with
\* behavior "smooth" starts an animation; scrollY moves in later steps.
Flush_keepsCalled ==
    /\ ~inPass
    /\ rafs > 0
    /\ rafs' = rafs - 1
    /\ items' = <<>>
    /\ UNCHANGED <<gradio_mode, called, awaiting, inPass, pageY, scrollY>>

Flush ==
    /\ ~inPass
    /\ rafs > 0
    /\ rafs' = rafs - 1
    /\ called' = FALSE
    /\ items' = <<>>
    /\ UNCHANGED <<gradio_mode, awaiting, inPass, pageY, scrollY>>

\* the argument of window.scrollTo at line 38
ScrollToTop(its) == FlushMin(its)[1] - ScrollMargin

\* a layout shift moves an element
Layout(el, y) ==
    /\ pageY[el] # y
    /\ pageY' = [pageY EXCEPT ![el] = y]
    /\ UNCHANGED <<gradio_mode, items, called, awaiting, rafs, inPass, scrollY>>

\* the page scrolls (the user, or a smooth scroll in progress)
Scroll(y) ==
    /\ ~inPass
    /\ scrollY # y
    /\ scrollY' = y
    /\ UNCHANGED <<gradio_mode, items, called, awaiting, rafs, inPass, pageY>>

----------------------------------------------------------------------------
(* One widget instance: the timer, the ETA and the progress fraction,      *)
(* src lines 46-125.  The widget keeps the default scroll_to_output =      *)
(* false of line 56, so the statement of lines 107-110 stops at its        *)
(* second operand and never calls scroll_into_view.                        *)
(* A change of several props in one update is taken as a change of one     *)
(* prop after another at the same instant.                                 *)

\* performance.now() counts milliseconds; the model's clock counts seconds
MsPerSecond == 1000

\* line 74, 83, 117: performance.now()
PerformanceNow == now * MsPerSecond

\* lines 83, 117: (performance.now() - timer_start) / 1000
SecondsSince(start) == (PerformanceNow - start) \div MsPerSecond

Statuses == {"complete", "pending", "error"}
\* the eta values the host supplies, in seconds
EtaInputs == {Null, Some(0), Some(1), Some(5), Some(10)}

\* Number.prototype.toFixed(1) of a whole number of seconds: its digits
\* before and after the decimal point
ToFixed1(x) == <<x, 0>>

\* a fraction num / den with den > 0
Frac(n, d) == [num |-> n, den |-> d]

\* Math.min of two fractions
MathMin(a, b) == IF a.num * b.den <= b.num * a.den THEN a ELSE b

Progress_noClamp(e, diff) ==
    IF e = Null \/ e[1] <= 0 \/ diff = 0 THEN Null
    ELSE Some(Frac(diff, e[1]))

\* lines 68-71: the progress fraction of eta e and elapsed seconds diff
Progress(e, diff) ==
    IF e = Null \/ e[1] <= 0 \/ diff = 0 THEN Null
    ELSE Some(MathMin(Frac(diff, e[1]), Frac(1, 1)))

\* lines 81-86, the call: run() hands one tick callback to requestAnimationFrame
run == ticks' = ticks + 1

start_timer_keepsStart ==
    /\ timer_diff' = 0
    /\ _timer' = TRUE
    /\ run
    /\ UNCHANGED timer_start

\* lines 73-79
start_timer ==
    /\ timer_start' = PerformanceNow
    /\ timer_diff' = 0
    /\ _timer' = TRUE
    /\ run

stop_timer_resetsStart ==
    /\ timer_diff' = 0
    /\ _timer' = FALSE
    /\ timer_start' = 0
    /\ UNCHANGED ticks

\* lines 88-93
stop_timer ==
    /\ timer_diff' = 0
    /\ _timer' = IF ~_timer THEN _timer ELSE FALSE
    /\ UNCHANGED <<timer_start, ticks>>

EtaAfter_noFallback(e, q, start, old) ==
    IF e = Null THEN Null
    ELSE IF q THEN Some(SecondsSince(start) + e[1])
    ELSE e

EtaAfter_queueIgnored(e, q, start, old) ==
    IF e = Null THEN old
    ELSE e

\* lines 114-118: the value the block leaves in eta, from the value e it
\* finds there, the queue flag, the start timestamp and old_eta
EtaAfter(e, q, start, old) ==
    IF e = Null THEN old
    ELSE IF q THEN Some(SecondsSince(start) + e[1])
    ELSE e

\* lines 113-123: the ETA block, run on the value e found in eta
eta_block(e, q) ==
    LET after == EtaAfter(e, q, timer_start, old_eta)
    IN  /\ after # Null => after[1] <= MaxEta
        /\ eta' = after
        /\ formatted_eta' = IF after # Null THEN Some(ToFixed1(after[1]))
                            ELSE formatted_eta
        /\ old_eta' = IF after # Null THEN after ELSE old_eta

\* lines 55, 99-105: the host changes status; the block of line 99 runs.
\* None of eta, old_eta, queue is touched, and the ETA block does not run.
SetStatus(s) ==
    /\ ~destroyed
    /\ s # status
    /\ status' = s
    /\ IF s = "pending"
       THEN ticks < MaxTicks /\ start_timer
       ELSE stop_timer
    /\ UNCHANGED <<eta, old_eta, formatted_eta, queue, now, destroyed>>

\* lines 51, 113-123: the host supplies an eta that differs from the one
\* the widget holds; the ETA block runs
SetEta(e) ==
    /\ ~destroyed
    /\ e # eta
    /\ eta_block(e, queue)
    /\ UNCHANGED <<status, _timer, timer_start, timer_diff, queue, ticks, now,
                   destroyed>>

\* lines 52, 113-123: the host changes the queue flag; the ETA block runs
SetQueue(q) ==
    /\ ~destroyed
    /\ q # queue
    /\ queue' = q
    /\ eta_block(eta, q)
    /\ UNCHANGED <<status, _timer, timer_start, timer_diff, ticks, now, destroyed>>

Tick_alwaysReschedules ==
    /\ ticks > 0
    /\ timer_diff' = SecondsSince(timer_start)
    /\ ticks' = (ticks - 1) + 1
    /\ UNCHANGED <<status, _timer, timer_start, eta, old_eta, formatted_eta,
                   queue, now, destroyed>>

\* lines 82-85: one tick callback runs
Tick ==
    /\ ticks > 0
    /\ timer_diff' = SecondsSince(timer_start)
    /\ ticks' = IF _timer THEN (ticks - 1) + 1 ELSE ticks - 1
    /\ UNCHANGED <<status, _timer, timer_start, eta, old_eta, formatted_eta,
                   queue, now, destroyed>>

\* lines 95-97: teardown
Destroy ==
    /\ ~destroyed
    /\ destroyed' = TRUE
    /\ IF _timer THEN stop_timer
       ELSE UNCHANGED <<timer_diff, _timer, timer_start, ticks>>
    /\ UNCHANGED <<status, eta, old_eta, formatted_eta, queue, now>>

\* the clock moves on by a second
Advance ==
    /\ now < MaxNow
    /\ now' = now + 1
    /\ UNCHANGED <<status, _timer, timer_start, timer_diff, eta, old_eta,
                   formatted_eta, queue, ticks, destroyed>>

\* lines 51-66 and the first run of the reactive blocks: the widget as
\* constructed at time 0 with props s, e, q
Constructed(s, e, q) ==
    /\ now = 0
    /\ status = s
    /\ queue = q
    /\ eta = EtaAfter(e, q, 0, Null)
    /\ old_eta = eta
    /\ formatted_eta = IF eta # Null THEN Some(ToFixed1(eta[1])) ELSE Null
    /\ timer_start = 0
    /\ timer_diff = 0
    /\ _timer = (s = "pending")
    /\ ticks = IF s = "pending" THEN 1 ELSE 0
    /\ destroyed = FALSE

----------------------------------------------------------------------------
(* The widget embedding the editor frame *)

Images == {Null} \cup {Some(i) : i \in 1 .. NumImages}
Masks == {Null} \cup {Some(i) : i \in 1 .. NumMasks}

\* line 201: a value of the value prop
Value(img, m) == [image |-> img, mask |-> m]
Values == {Value(img, m) : img \in Images, m \in Masks}

MessageTypes == {"loaded", "image-editor-output", "other"}

\* lines 219-222 and 232-235: the object handed to postMessage, the image
\* img under the property name field
InputMessage(field, img) ==
    [type |-> "image-editor-input", field |-> field, payload |-> img]

compareValues_always(frame, remembered, val) ==
    IF frame THEN <<InputMessage("image", val.image)>> ELSE <<>>

\* lines 217-224: the messages compareValues(val) posts, the frame being
\* bound or not and remembered being imageEditorValue
compareValues(frame, remembered, val) ==
    IF frame /\ remembered # val.image
    THEN <<InputMessage("image", val.image)>>
    ELSE <<>>

\* lines 201, 226-228: the host supplies a value; the reactive block runs
\* (an object always counts as changed) unless the widget was torn down
SetValue(v) ==
    /\ value' = v
    /\ posted' = compareValues(imageEditor, imageEditorValue, v)
    /\ dispatched' = <<>>
    /\ UNCHANGED <<imageEditor, imageEditorValue>>

processMessages_keepsMask(type, img, m) ==
    /\ imageEditor
    /\ IF type = "image-editor-output"
       THEN /\ dispatched' = <<Value(img, m)>>
            /\ imageEditorValue' = img
            /\ value' = Value(img, value.mask)
       ELSE /\ dispatched' = <<>>
            /\ UNCHANGED <<imageEditorValue, value>>
    /\ posted' =
        (IF type = "loaded"
         THEN <<InputMessage("detail", value.image)>> ELSE <<>>)
        \o (IF type = "image-editor-output"
            THEN compareValues(imageEditor, imageEditorValue', value')
            ELSE <<>>)
    /\ UNCHANGED imageEditor

\* lines 230-244: the listener receives a message of the given type whose
\* detail holds img and m; the assignments to value.mask and value.image
\* make the reactive block of lines 226-228 run afterwards
processMessages(type, img, m) ==
    /\ imageEditor
    /\ IF type = "image-editor-output"
       THEN /\ dispatched' = <<Value(img, m)>>
            /\ imageEditorValue' = img
            /\ value' = Value(img, m)
       ELSE /\ dispatched' = <<>>
            /\ UNCHANGED <<imageEditorValue, value>>
    /\ posted' =
        (IF type = "loaded"
         THEN <<InputMessage("detail", value.image)>> ELSE <<>>)
        \o (IF type = "image-editor-output"
            THEN compareValues(imageEditor, imageEditorValue', value')
            ELSE <<>>)
    /\ UNCHANGED imageEditor

\* lines 250-252, 265: teardown removes the listener and unbinds the frame
Unmount ==
    /\ imageEditor
    /\ imageEditor' = FALSE
    /\ posted' = <<>>
    /\ dispatched' = <<>>
    /\ UNCHANGED <<value, imageEditorValue>>

\* lines 201-210, 246-248, 265: the widget as mounted with the value v
Mounted(v) ==
    /\ value = v
    /\ imageEditor = TRUE
    /\ imageEditorValue = Null
    /\ posted = <<>>
    /\ dispatched = <<>>

NoStep == [op |-> "init", detail |-> Null]

\* a mounted editor widget to which nothing has happened
EditorAtRest ==
    /\ Mounted(Value(Null, Null))
    /\ sent = Null
    /\ e_last = NoStep

----------------------------------------------------------------------------
(* Observed steps of the coordinator *)

Min2(a, b) == IF a <= b THEN a ELSE b

IsSuffix(s, t) ==
    /\ Len(s) <= Len(t)
    /\ \A i \in 1 .. Len(s) : s[i] = t[Len(t) - Len(s) + i]

\* what a flush is seen to do: the list it examines, the argument of its
\* window.scrollTo, and the index its loop leaves in min[1]
FlushSeen ==
    [op |-> "flush", examined |-> items, top |-> ScrollToTop(items),
     idx |-> FlushMin(items)[2], regMin |-> regMin]

B_BeginPass ==
    /\ BeginPass
    /\ passItems' = <<>>
    /\ nflush' = 0
    /\ g_call' = NoCall
    /\ g_flush' = NoFlush
    /\ UNCHANGED regMin
    /\ UNCHANGED <<timerVars, timerObs, editorVars, editorObs>>

B_EndPass ==
    /\ EndPass
    /\ g_call' = NoCall
    /\ g_flush' = NoFlush
    /\ UNCHANGED <<passItems, nflush, regMin>>
    /\ UNCHANGED <<timerVars, timerObs, editorVars, editorObs>>

B_Call ==
    \E el \in Els, arg \in EnableArgs :
        /\ scroll_into_view(el, arg)
        /\ g_call' = [op |-> "call", el |-> el, enable |-> DefaultEnable(arg)]
        /\ g_flush' = NoFlush
        /\ passItems' = IF items' # items THEN Append(passItems, el) ELSE passItems
        /\ UNCHANGED <<nflush, regMin>>
        /\ UNCHANGED <<timerVars, timerObs, editorVars, editorObs>>

B_TickResolved ==
    /\ TickResolved
    /\ g_call' = NoCall
    /\ g_flush' = NoFlush
    /\ UNCHANGED <<passItems, nflush, regMin>>
    /\ UNCHANGED <<timerVars, timerObs, editorVars, editorObs>>

B_Flush ==
    /\ Flush
    /\ g_flush' = FlushSeen
    /\ g_call' = NoCall
    /\ nflush' = nflush + 1
    /\ UNCHANGED <<passItems, regMin>>
    /\ UNCHANGED <<timerVars, timerObs, editorVars, editorObs>>

InitScroll ==
    /\ gradio_mode \in Modes
    /\ items = <<>>
    /\ called = FALSE
    /\ awaiting = 0
    /\ rafs = 0
    /\ inPass = FALSE
    /\ scrollY = 0
    /\ g_call = NoCall
    /\ g_flush = NoFlush
    /\ passItems = <<>>
    /\ nflush = 0
    /\ regMin = Null
    /\ Constructed("complete", Null, FALSE)
    /\ t_last = [op |-> "init", arg |-> Null]
    /\ observed = FALSE
    /\ EditorAtRest

\* a page whose layout does not move
InitBatch ==
    /\ InitScroll
    /\ pageY = [el \in Els |-> el % (MaxY + 1)]

NextBatch ==
    \/ B_BeginPass
    \/ B_Call
    \/ B_EndPass
    \/ B_TickResolved
    \/ B_Flush

SpecBatch == InitBatch /\ [][NextBatch]_vars

\* A synchronous pass runs to its end.  The continuation of `await tick()` is
\* a microtask and the flush an animation-frame callback: the event loop runs
\* each of them between two passes, however often passes start.
SpecBatchFair ==
    /\ SpecBatch
    /\ WF_vars(B_EndPass)
    /\ SF_vars(B_TickResolved)
    /\ SF_vars(B_Flush)

----------------------------------------------------------------------------
(* The coordinator on a page whose layout moves and scrolls: what a flush   *)
(* reads and where it scrolls to                                            *)

\* the position an element has at the moment it is registered
RegisteredAt(el) == BoxTop(el) + scrollY

F_BeginPass ==
    /\ BeginPass
    /\ g_flush' = NoFlush
    /\ UNCHANGED <<g_call, passItems, nflush, regMin>>
    /\ UNCHANGED <<timerVars, timerObs, editorVars, editorObs>>

F_EndPass ==
    /\ EndPass
    /\ g_flush' = NoFlush
    /\ UNCHANGED <<g_call, passItems, nflush, regMin>>
    /\ UNCHANGED <<timerVars, timerObs, editorVars, editorObs>>

F_Call ==
    \E el \in Els, arg \in EnableArgs :
        /\ scroll_into_view(el, arg)
        /\ regMin' = IF items' = items THEN regMin
                     ELSE IF regMin = Null THEN Some(RegisteredAt(el))
                     ELSE Some(Min2(regMin[1], RegisteredAt(el)))
        /\ g_flush' = NoFlush
        /\ UNCHANGED <<g_call, passItems, nflush>>
        /\ UNCHANGED <<timerVars, timerObs, editorVars, editorObs>>

F_TickResolved ==
    /\ TickResolved
    /\ g_flush' = NoFlush
    /\ UNCHANGED <<g_call, passItems, nflush, regMin>>
    /\ UNCHANGED <<timerVars, timerObs, editorVars, editorObs>>

F_Flush ==
    /\ Flush
    /\ g_flush' = FlushSeen
    /\ regMin' = Null
    /\ UNCHANGED <<g_call, passItems, nflush>>
    /\ UNCHANGED <<timerVars, timerObs, editorVars, editorObs>>

F_Layout ==
    \E el \in Els, y \in 0 .. MaxY :
        /\ Layout(el, y)
        /\ g_flush' = NoFlush
        /\ UNCHANGED <<g_call, passItems, nflush, regMin>>
        /\ UNCHANGED <<timerVars, timerObs, editorVars, editorObs>>

F_Scroll ==
    \E y \in 0 .. MaxScroll :
        /\ Scroll(y)
        /\ g_flush' = NoFlush
        /\ UNCHANGED <<g_call, passItems, nflush, regMin>>
        /\ UNCHANGED <<timerVars, timerObs, editorVars, editorObs>>

InitFlush ==
    /\ InitScroll
    /\ pageY \in [Els -> 0 .. MaxY]

NextFlush ==
    \/ F_BeginPass
    \/ F_Call
    \/ F_EndPass
    \/ F_TickResolved
    \/ F_Flush
    \/ F_Layout
    \/ F_Scroll

SpecFlush == InitFlush /\ [][NextFlush]_vars

----------------------------------------------------------------------------
(* The widget's steps, observed *)

Did(op, arg) == [op |-> op, arg |-> arg]

T_SetStatus ==
    \E s \in Statuses :
        /\ SetStatus(s)
        /\ t_last' = Did("status", Null)
        /\ UNCHANGED <<observed, scrollVars, scrollObs, editorVars, editorObs>>

T_SetEta ==
    \E e \in EtaInputs :
        /\ SetEta(e)
        /\ t_last' = Did("eta", e)
        /\ observed' = (observed \/ e # Null)
        /\ UNCHANGED <<scrollVars, scrollObs, editorVars, editorObs>>

T_SetQueue ==
    \E q \in BOOLEAN :
        /\ SetQueue(q)
        /\ t_last' = Did("queue", Null)
        /\ UNCHANGED <<observed, scrollVars, scrollObs, editorVars, editorObs>>

T_Tick ==
    /\ Tick
    /\ t_last' = Did("tick", Null)
    /\ UNCHANGED <<observed, scrollVars, scrollObs, editorVars, editorObs>>

T_Destroy ==
    /\ Destroy
    /\ t_last' = Did("destroy", Null)
    /\ UNCHANGED <<observed, scrollVars, scrollObs, editorVars, editorObs>>

T_Advance ==
    /\ Advance
    /\ t_last' = Did("advance", Null)
    /\ UNCHANGED <<observed, scrollVars, scrollObs, editorVars, editorObs>>

\* no scroll request is pending on the page of this widget
ScrollAtRest ==
    /\ gradio_mode = "app"
    /\ items = <<>>
    /\ called = FALSE
    /\ awaiting = 0
    /\ rafs = 0
    /\ inPass = FALSE
    /\ pageY = [el \in Els |-> 0]
    /\ scrollY = 0
    /\ g_call = NoCall
    /\ g_flush = NoFlush
    /\ passItems = <<>>
    /\ nflush = 0
    /\ regMin = Null

InitTimer ==
    /\ ScrollAtRest
    /\ EditorAtRest
    /\ \E s \in Statuses, e \in EtaInputs, q \in BOOLEAN :
        /\ Constructed(s, e, q)
        /\ observed = (e # Null)
    /\ t_last = Did("init", Null)

NextTimer ==
    \/ T_SetStatus
    \/ T_SetEta
    \/ T_SetQueue
    \/ T_Tick
    \/ T_Destroy
    \/ T_Advance

SpecTimer == InitTimer /\ [][NextTimer]_vars

\* the browser runs a callback handed to requestAnimationFrame at a later
\* frame
SpecTimerFair == SpecTimer /\ WF_vars(T_Tick)

----------------------------------------------------------------------------
(* Observed steps of the editor bridge *)

\* the message most recently posted, after a step that posted msgs
SentAfter(msgs) == IF msgs = <<>> THEN sent ELSE Some(msgs[Len(msgs)])

E_SetValue ==
    \E v \in Values :
        /\ SetValue(v)
        /\ sent' = SentAfter(posted')
        /\ e_last' = [op |-> "value", detail |-> Null]
        /\ UNCHANGED <<scrollVars, scrollObs, timerVars, timerObs>>

E_Message ==
    \E type \in MessageTypes, img \in Images, m \in Masks :
        /\ processMessages(type, img, m)
        /\ sent' = SentAfter(posted')
        /\ e_last' = [op |-> type,
                      detail |-> IF type = "image-editor-output"
                                 THEN Some(Value(img, m)) ELSE Null]
        /\ UNCHANGED <<scrollVars, scrollObs, timerVars, timerObs>>

E_Unmount ==
    /\ Unmount
    /\ e_last' = [op |-> "unmount", detail |-> Null]
    /\ UNCHANGED <<sent, scrollVars, scrollObs, timerVars, timerObs>>

InitEditor ==
    /\ ScrollAtRest
    /\ Constructed("complete", Null, FALSE)
    /\ t_last = Did("init", Null)
    /\ observed = FALSE
    /\ \E v \in Values : Mounted(v)
    /\ sent = Null
    /\ e_last = NoStep

NextEditor ==
    \/ E_SetValue
    \/ E_Message
    \/ E_Unmount

SpecEditor == InitEditor /\ [][NextEditor]_vars

----------------------------------------------------------------------------
(* Claims about the scroll coordinator *)

\* C1: the accepted calls of one synchronous update pass are served by exactly
\* one flush: never more than one flush is scheduled, one is scheduled for as
\* long as requests of the pass wait, no flush runs inside a pass, at most one
\* runs after it, and the list that flush examines ends with every element
\* the pass registered.
C1_OneFlushPerPass ==
    /\ awaiting + rafs <= 1
    /\ nflush <= 1
    /\ inPass => nflush = 0
    /\ (passItems # <<>> /\ nflush = 0) =>
            (awaiting + rafs = 1 /\ IsSuffix(passItems, items))
    /\ g_flush.op = "flush" =>
            (~inPass /\ nflush = 1 /\ IsSuffix(passItems, g_flush.examined))

\* a flush has just served a pass in which two different widgets registered
C1_Witness ==
    /\ g_flush.op = "flush"
    /\ Len(passItems) >= 2
    /\ passItems[1] # passItems[2]
    /\ g_flush.examined = passItems

\* the positions the elements of a list have in the current state
Positions(its) == {BoxTop(its[i]) + scrollY : i \in 1 .. Len(its)}

SetMin(S) == CHOOSE v \in S : \A w \in S : v <= w

\* C2: a flush scrolls to m - 20, m being the least (top + scroll offset) over
\* the elements of the pending list, with the positions they have when the
\* flush runs (the flush moves neither the layout nor the scroll offset, so
\* these are the positions of the state right after it).
C2_ScrollsToMinMinus20 ==
    g_flush.op = "flush" =>
        /\ g_flush.examined # <<>>
        /\ g_flush.top = SetMin(Positions(g_flush.examined)) - 20

\* a flush of two elements whose least position moved after registration
C2_Witness ==
    /\ g_flush.op = "flush"
    /\ Len(g_flush.examined) >= 2
    /\ g_flush.regMin # Some(SetMin(Positions(g_flush.examined)))
    /\ g_flush.top = SetMin(Positions(g_flush.examined)) - 20

\* the 0-based indices of the examined list whose element sits at the minimum
AtMin(its) ==
    {i \in 0 .. Len(its) - 1 :
        BoxTop(its[i + 1]) + scrollY = SetMin(Positions(its))}

C4_NoopExactlyWhenRejected ==
    [][g_call'.op = "call" =>
        LET enable == g_call'.enable
            noop == \/ gradio_mode = "website"
                    \/ (gradio_mode # "app" /\ enable # "true")
        IN  /\ noop => UNCHANGED <<items, called, awaiting, rafs, g_flush>>
            /\ ~noop => items' = Append(items, g_call'.el)]_vars

\* an accepted call in mode "app" with enable false
C4_Witness ==
    /\ g_call.op = "call"
    /\ g_call.enable = "false"
    /\ gradio_mode = "app"
    /\ items # <<>>
    /\ items[Len(items)] = g_call.el

\* C13: an accepted call made while a flush is scheduled and has not run
\* (the tick awaited or already resolved) schedules no further flush and
\* appends its element to the list that flush will examine; a flush examines
\* the whole pending list and empties it, so no request is examined twice;
\* and, callbacks being run fairly, the n-th pending request is eventually
\* examined by a flush.
C13_JoinsPendingFlush ==
    /\ [][(g_call'.op = "call" /\ called /\ items' # items) =>
            /\ UNCHANGED <<awaiting, rafs>>
            /\ awaiting + rafs = 1
            /\ items' = Append(items, g_call'.el)]_vars
    /\ [][g_flush'.op = "flush" =>
            (g_flush'.examined = items /\ items' = <<>>)]_vars
    /\ \A n \in 1 .. MaxItems :
            (Len(items) >= n) ~>
                (g_flush.op = "flush" /\ Len(g_flush.examined) >= n)

\* a call has just been accepted after the awaited tick resolved and before
\* the animation frame fired
C13_Witness ==
    /\ g_call.op = "call"
    /\ gradio_mode = "embed"
    /\ inPass
    /\ rafs = 1
    /\ awaiting = 0
    /\ Len(items) >= 2
    /\ items[Len(items)] = g_call.el

\* C14: between synchronous steps `called` is true exactly when `items` is
\* non-empty; a flush leaves the list empty and the flag clear, and never
\* runs on an empty list.
C14_CalledIffPending ==
    /\ called <=> items # <<>>
    /\ g_flush.op = "flush" =>
            (items = <<>> /\ ~called /\ g_flush.examined # <<>>)

\* a flush has just emptied a list of two requests
C14_Witness ==
    /\ g_flush.op = "flush"
    /\ Len(g_flush.examined) >= 2
    /\ items = <<>>
    /\ ~called
    /\ awaiting + rafs = 0

----------------------------------------------------------------------------
(* Claims about the widget's timer, ETA and progress *)

\* C5 as stated: once the widget is torn down, no step changes its elapsed
\* seconds.
C5_NoMutationAfterTeardown ==
    [][destroyed => timer_diff' = timer_diff]_vars

\* C6 as stated: whenever the running flag is clear, elapsed seconds is 0.
C6_StoppedMeansZero ==
    ~_timer => timer_diff = 0

\* a step in which stop_timer runs: status leaves pending, or the widget is
\* torn down while running
StopStep ==
    \/ status = "pending" /\ status' # "pending"
    \/ ~destroyed /\ destroyed' /\ _timer

\* C7: stop_timer sets elapsed to 0 and clears the running flag, and leaves
\* the start timestamp, eta and the last-known eta as they were.
C7_StopKeepsEta ==
    [][StopStep =>
        /\ timer_diff' = 0
        /\ _timer' = FALSE
        /\ UNCHANGED <<timer_start, eta, old_eta>>]_vars

\* the timer has just been stopped some time after a start, with a last-known
\* eta that the next pending transition finds
C7_Witness ==
    /\ t_last.op = "status"
    /\ status = "complete"
    /\ ~_timer
    /\ timer_diff = 0
    /\ timer_start > 0
    /\ old_eta = Some(5)
    /\ eta = Some(5)

\* seconds between the timer start and now
SinceStart == (now * 1000 - timer_start) \div 1000

\* C8: a non-null eta e supplied t seconds after the timer start leaves
\* eta = t + e with queueing on and eta = e with it off, and stores that as the
\* last-known eta; a null eta leaves eta at the last-known value, with nothing
\* added.
C8_EtaComputation ==
    [][t_last'.op = "eta" =>
        LET e == t_last'.arg
        IN  IF e # Null
            THEN /\ eta' = Some(IF queue THEN SinceStart + e[1] ELSE e[1])
                 /\ old_eta' = eta'
            ELSE /\ eta' = old_eta
                 /\ old_eta' = old_eta]_vars

\* queueing on, 5 supplied 2 seconds after the start gave 7, and null
\* supplied afterwards still gives 7
C8_Witness ==
    /\ t_last = Did("eta", Null)
    /\ queue
    /\ status = "pending"
    /\ SinceStart = 2
    /\ eta = Some(7)
    /\ old_eta = Some(7)

\* C9: once a non-null eta has been supplied, eta and formatted_eta are
\* non-null after every later step; eta is null only while none was supplied.
C9_EtaNeverRegresses ==
    /\ observed => (eta # Null /\ formatted_eta # Null)
    /\ eta = Null => ~observed

\* null has just been supplied to a stopped widget that had seen an eta
C9_Witness ==
    /\ observed
    /\ t_last = Did("eta", Null)
    /\ ~_timer
    /\ eta # Null
    /\ formatted_eta # Null

\* C10: the progress fraction is undefined exactly when eta is null, eta <= 0
\* or elapsed is 0; otherwise it is min(elapsed / eta, 1), a value in (0, 1].
C10_ProgressFraction ==
    LET p == Progress(eta, timer_diff)
    IN  /\ (p = Null) <=> (eta = Null \/ eta[1] <= 0 \/ timer_diff = 0)
        /\ p # Null =>
            /\ p[1].den > 0
            /\ 0 < p[1].num
            /\ p[1].num <= p[1].den
            /\ IF timer_diff <= eta[1]
               THEN p[1].num * eta[1] = timer_diff * p[1].den
               ELSE p[1].num = p[1].den

\* eta 10 and elapsed 4 give 0.4
C10_Witness ==
    /\ eta = Some(10)
    /\ timer_diff = 4
    /\ Progress(eta, timer_diff) # Null
    /\ Progress(eta, timer_diff)[1].num * 10 = Progress(eta, timer_diff)[1].den * 4

\* C15: a tick callback that finds the running flag cleared schedules no
\* successor, and while the timer stays stopped no callback is added; so,
\* frame callbacks being run fairly, once the timer stays stopped for good
\* a state with no outstanding tick callback is reached and kept.
C15_TickSelfCancels ==
    /\ [][(t_last'.op = "tick" /\ ~_timer) => ticks' = ticks - 1]_vars
    /\ [][(~_timer /\ ~_timer') => ticks' <= ticks]_vars
    /\ (<>[](~_timer)) => (<>[](ticks = 0))

\* the last outstanding callback has just run on a stopped timer
C15_Witness ==
    /\ t_last.op = "tick"
    /\ ~_timer
    /\ ticks = 0
    /\ status # "pending"

\* C16: a step into pending status records the current time as the start,
\* zeroes the elapsed seconds, sets the running flag and schedules one tick
\* (so does construction with pending status); the start timestamp changes
\* in no other step; a tick of a running timer leaves elapsed = now - start
\* and schedules its successor.
C16_StartAndTick ==
    /\ (status = "pending") =>
            (_timer /\ timer_diff = 0 /\ ticks = 1
                /\ timer_start = PerformanceNow)
    /\ [][(t_last'.op = "status" /\ status' = "pending") =>
            /\ timer_start' = now' * MsPerSecond
            /\ timer_diff' = 0
            /\ _timer'
            /\ ticks' = ticks + 1]_vars
    /\ [][timer_start' # timer_start =>
            (t_last'.op = "status" /\ status' = "pending")]_vars
    /\ [][(t_last'.op = "tick" /\ _timer) =>
            /\ timer_diff' * MsPerSecond = now' * MsPerSecond - timer_start'
            /\ ticks' = ticks]_vars

\* a timer started at a later time than 0 has just ticked two seconds on
C16_Witness ==
    /\ t_last.op = "tick"
    /\ _timer
    /\ timer_start > 0
    /\ timer_diff >= 2

\* C18: at most one tick callback of the widget is outstanding at any time.
C18_AtMostOneTick == ticks <= 1

\* C20: a run of the ETA block that a change of the queue flag causes, no
\* eta being supplied, leaves eta and old_eta as they were.
C20_RerunIsIdempotent ==
    [][t_last'.op = "queue" => UNCHANGED <<eta, old_eta>>]_vars

\* C11: a `loaded` message makes the widget post exactly one input message
\* carrying the image its value holds at that moment; an
\* `image-editor-output` message makes it raise exactly one change
\* notification carrying the returned image and mask, and leaves value.image
\* and value.mask equal to them.
C11_Handshake ==
    /\ [][e_last'.op = "loaded" =>
            /\ Len(posted') = 1
            /\ posted'[1].type = "image-editor-input"
            /\ posted'[1].payload = value.image
            /\ dispatched' = <<>>
            /\ value' = value]_vars
    /\ [][e_last'.op = "image-editor-output" =>
            /\ Len(dispatched') = 1
            /\ Some(dispatched'[1]) = e_last'.detail
            /\ Some(value') = e_last'.detail]_vars

\* after a `loaded` reply the editor returned image 1 with mask 1
C11_Witness ==
    /\ e_last.op = "image-editor-output"
    /\ value = Value(Some(1), Some(1))
    /\ dispatched = <<value>>
    /\ sent # Null
    /\ sent[1].field = "detail"

\* C12: a host change of the image while the frame is bound posts one input
\* message carrying the new image, which is then the message most recently
\* delivered to the editor.
C12_HostChangeIsPushed ==
    [][(e_last'.op = "value" /\ imageEditor /\ value'.image # value.image) =>
            /\ Len(posted') = 1
            /\ posted'[1].payload = value'.image
            /\ sent' = Some(posted'[1])]_vars

\* C17: every two messages the widget posts have the same type and carry
\* the image under the same property.
C17_OneOutboundKind ==
    [][(sent # Null /\ posted' # <<>>) =>
            /\ posted'[1].type = sent[1].type
            /\ posted'[1].field = sent[1].field]_vars

\* C19: once an `image-editor-output` message is processed the remembered
\* editor image equals value.image and the step posts nothing to the frame.
C19_NoEcho ==
    [][e_last'.op = "image-editor-output" =>
            /\ imageEditorValue' = value'.image
            /\ posted' = <<>>]_vars

\* the editor returned an image other than the one last posted to it
C19_Witness ==
    /\ e_last.op = "image-editor-output"
    /\ imageEditor
    /\ value.image # Null
    /\ sent # Null
    /\ sent[1].payload # value.image
    /\ imageEditorValue = value.image
    /\ posted = <<>>

====
